---- MODULE Spec2Model ----
(***************************************************************************)
(* Model of src/src/App.tsx (CSV Stat Dashboard): the percentage parser,   *)
(* the range classifier, the per-section and overall statistics, the view  *)
(* selection (section scope/query/sort and row filters) and the file pick  *)
(* with its asynchronous parse.                                            *)
(*                                                                         *)
(* Strings the code works on character by character (cells, position     *)
(* labels, titles, column names, ids, the query) are sequences of          *)
(* one-character strings.  Strings the code only carries around (file      *)
(* names, action texts) are opaque TLA+ strings.                           *)
(***************************************************************************)
EXTENDS Integers, Sequences, FiniteSets, TLC

VARIABLES
    rawRows,          \* useState<Row[]>            (App.tsx:80)
    filename,         \* useState<string>           (App.tsx:81)
    globalRowFilter,  \* useState "ALL"|"GOOD"|"BAD" (App.tsx:83), no setter
    sectionScope,     \* useState "ALL"|"WITH_BAD"|"WITH_DATA" (App.tsx:84), no setter
    query,            \* useState string            (App.tsx:85), no setter
    sortMode,         \* useState "MOST_BAD"|"A_Z"  (App.tsx:86), no setter
    filters,          \* useState Record<id, filter> (App.tsx:89)
    openMap,          \* useState Record<id, boolean> (App.tsx:95)
    pending,          \* Papa.parse calls whose callback has not run yet
    view,             \* what the last render shows (App.tsx:306-439)
    cell, parsed,     \* argument and result of a parsePercent call
    cValue, cRange, cResult   \* arguments and result of a classify call

vars == <<rawRows, filename, globalRowFilter, sectionScope, query, sortMode,
          filters, openMap, pending, view, cell, parsed, cValue, cRange, cResult>>

appVars == <<rawRows, filename, globalRowFilter, sectionScope, query, sortMode,
             filters, openMap, pending, view>>
parseVars == <<cell, parsed>>
classifyVars == <<cValue, cRange, cResult>>

----------------------------------------------------------------------------
(* Bounds *)

MaxCellLen == 5      \* longest raw cell drawn for parsePercent
MaxTarget == 3       \* largest integer part drawn for classify's arguments
MaxRows == 3         \* longest raw row set loaded in SpecEngine
MaxViewRows == 2     \* longest raw row set drawn in SpecView
MaxPending == 2      \* most parses in flight at once

----------------------------------------------------------------------------
(* Strings and numbers *)

Undefined == <<"undefined">>     \* JS undefined/null: no character sequence
Null == [null |-> TRUE]          \* parsePercent's null
NaN == [nan |-> TRUE]            \* Number()'s NaN

RECURSIVE Pow10(_)
Pow10(n) == IF n = 0 THEN 1 ELSE 10 * Pow10(n - 1)

FracDigits == MaxCellLen
FracUnit == Pow10(FracDigits)

\* A finite number: sign, integer part, fractional part in units of 1/FracUnit.
\* Zero is kept unsigned (JS compares -0 and 0 as equal).
Num(neg, int, frac) ==
    [neg |-> neg /\ (int # 0 \/ frac # 0), int |-> int, frac |-> frac]

IsNum(x) == DOMAIN x = {"neg", "int", "frac"}

MagLE(a, b) == a.int < b.int \/ (a.int = b.int /\ a.frac <= b.frac)

\* a <= b on finite numbers
NumLE(a, b) ==
    CASE a.neg /\ ~b.neg -> TRUE
      [] ~a.neg /\ b.neg -> FALSE
      [] ~a.neg /\ ~b.neg -> MagLE(a, b)
      [] OTHER -> MagLE(b, a)

NumGE(a, b) == NumLE(b, a)
NumLT(a, b) == ~NumLE(b, a)
NumGT(a, b) == ~NumLE(a, b)

Digits == {"0", "1", "2", "3", "4", "5", "6", "7", "8", "9"}

DigitVal(c) ==
    CASE c = "0" -> 0 [] c = "1" -> 1 [] c = "2" -> 2 [] c = "3" -> 3
      [] c = "4" -> 4 [] c = "5" -> 5 [] c = "6" -> 6 [] c = "7" -> 7
      [] c = "8" -> 8 [] c = "9" -> 9

IsSpace(c) == c = " "

RECURSIVE TrimLeft(_)
TrimLeft(s) ==
    IF s # <<>> /\ IsSpace(Head(s)) THEN TrimLeft(Tail(s)) ELSE s

RECURSIVE TrimRight(_)
TrimRight(s) ==
    IF s # <<>> /\ IsSpace(s[Len(s)])
    THEN TrimRight(SubSeq(s, 1, Len(s) - 1))
    ELSE s

\* String.prototype.trim
Trim(s) == TrimRight(TrimLeft(s))

LowerChar(c) ==
    CASE c = "A" -> "a" [] c = "B" -> "b" [] c = "F" -> "f" [] c = "N" -> "n"
      [] c = "S" -> "s" [] c = "T" -> "t" [] c = "C" -> "c"
      [] OTHER -> c

\* String.prototype.toLowerCase
ToLowerCase(s) == [i \in 1..Len(s) |-> LowerChar(s[i])]

\* s without its i-th character (i = 0: s itself)
Without(s, i) ==
    IF i = 0 THEN s ELSE SubSeq(s, 1, i - 1) \o SubSeq(s, i + 1, Len(s))

\* s.replace("%", ""): removes the first "%" only
ReplacePercent(s) ==
    Without(s, IF \E i \in 1..Len(s) : s[i] = "%"
               THEN CHOOSE i \in 1..Len(s) :
                        s[i] = "%" /\ \A j \in 1..(i - 1) : s[j] # "%"
               ELSE 0)

AllDigits(s) == \A i \in 1..Len(s) : s[i] \in Digits

RECURSIVE DecVal(_)
DecVal(s) ==
    IF s = <<>> THEN 0
    ELSE 10 * DecVal(SubSeq(s, 1, Len(s) - 1)) + DigitVal(s[Len(s)])

Least(S) == IF S = {} THEN 0 ELSE CHOOSE i \in S : \A j \in S : i <= j

\* The digits before and after the decimal point as a number, NaN unless
\* both are digits only and there is at least one
DecimalValue(neg, ip, fp) ==
    IF AllDigits(ip) /\ AllDigits(fp) /\ Len(ip) + Len(fp) >= 1
           /\ Len(fp) <= FracDigits
    THEN Num(neg, DecVal(ip), DecVal(fp) * Pow10(FracDigits - Len(fp)))
    ELSE NaN

\* The unsigned literal split at its first "." (dot = 0: there is none)
SplitAtDot(neg, body, dot) ==
    IF dot = 0 THEN DecimalValue(neg, body, <<>>)
    ELSE DecimalValue(neg, SubSeq(body, 1, dot - 1), SubSeq(body, dot + 1, Len(body)))

UnsignedLiteral(neg, body) ==
    SplitAtDot(neg, body, Least({i \in 1..Len(body) : body[i] = "."}))

\* StrDecimalLiteral: an optional sign, then the unsigned literal
StrDecimalLiteral(t) ==
    UnsignedLiteral(Head(t) = "-", IF Head(t) \in {"-", "+"} THEN Tail(t) ELSE t)

\* Number(string) (ECMAScript StringToNumber) on strings made of digits, ".",
\* a sign and white space: white space is stripped at both ends, the empty
\* string is 0, [+-]digits[.digits] / [+-].digits is its decimal value, and
\* anything else is NaN.  (Exponents, hex/octal/binary literals and
\* "Infinity" need characters outside the alphabets drawn here.)
StringToNumber(t) == IF t = <<>> THEN Num(FALSE, 0, 0) ELSE StrDecimalLiteral(t)

ToNumber(s) == StringToNumber(Trim(s))

\* Number.isFinite
IsFinite(n) == IsNum(n)

\* return Number.isFinite(n) ? n : null (App.tsx:24)
finiteOrNull(n) == IF IsFinite(n) THEN n ELSE Null

\* parsePercent from the trimmed string on (App.tsx:21-24)
parseTrimmed(s) ==
    IF s = <<>> \/ s = <<"-">> \/ ToLowerCase(s) = <<"n", "a">>
    THEN Null
    ELSE finiteOrNull(ToNumber(ReplacePercent(s)))

\* parsePercent (App.tsx:18-25)
parsePercent(value) ==
    IF value = Undefined THEN Null ELSE parseTrimmed(Trim(value))

\* classify with the lower comparison made strict
classifyStrictLow(value, range) ==
    IF NumLT(value, range.min) THEN "LOW"
    ELSE IF NumGE(value, range.max) THEN "HIGH"
    ELSE "GOOD"

\* classify (App.tsx:27-31)
classify(value, range) ==
    IF NumLE(value, range.min) THEN "LOW"
    ELSE IF NumGE(value, range.max) THEN "HIGH"
    ELSE "GOOD"

----------------------------------------------------------------------------
(* The section catalog (./sections, imported at App.tsx:4) and the rows *)

PositionKey == <<"P", "o", "s", "i", "t", "i", "o", "n">>
HandsKey == <<"H", "a", "n", "d", "s">>

Target(lo, hi) == [min |-> Num(FALSE, lo, 0), max |-> Num(FALSE, hi, 0)]

BTN == <<"B", "T", "N">>
SB == <<"S", "B">>

\* Three sections: unique ids, two of them with the same title, each with its
\* own column, position-to-range mapping and action texts.
SECTIONS == <<
    [id |-> <<"f", "3", "b">>, title |-> <<"F", "o", "l", "d">>,
     column |-> <<"F", "3", "B">>,
     targetsByPosition |-> (BTN :> Target(50, 65)),
     lowAction |-> "tighten", goodAction |-> "balanced", highAction |-> "widen"],
    [id |-> <<"c", "b">>, title |-> <<"b", "e", "t">>,
     column |-> <<"C", "B">>,
     targetsByPosition |-> (BTN :> Target(20, 40)) @@ (SB :> Target(30, 30)),
     lowAction |-> "cb-more", goodAction |-> "cb-keep", highAction |-> "cb-less"],
    [id |-> <<"t", "b">>, title |-> <<"b", "e", "t">>,
     column |-> <<"T", "B">>,
     targetsByPosition |-> (SB :> Target(20, 40)),
     lowAction |-> "tb-more", goodAction |-> "tb-keep", highAction |-> "tb-less"]
>>

SectionIds == {SECTIONS[i].id : i \in 1..Len(SECTIONS)}

\* A Row (App.tsx:7): column name -> raw cell; a column the file does not have
\* reads as undefined.
MkRow(pos, hands, f3b, cb, tb) ==
    (PositionKey :> pos) @@ (HandsKey :> hands) @@ (SECTIONS[1].column :> f3b)
        @@ (SECTIONS[2].column :> cb) @@ (SECTIONS[3].column :> tb)

RowLow == MkRow(BTN, <<"1", "2", "0">>, <<"4", "5", "%">>, <<"3", "0">>, Undefined)
RowEdge == MkRow(<<" ">> \o BTN \o <<" ">>, Undefined, <<"6", "5", "%">>,
                 <<"4", "0", "%">>, <<"2", "5">>)
RowGood == MkRow(BTN, <<"8", "0">>, <<"6", "4", ".", "9", "%">>, <<"n", "a">>, <<"-">>)
RowSb == MkRow(SB, <<>>, <<"5", "5">>, <<"3", "0">>, <<"3", "9">>)
RowBlank == MkRow(<<" ", " ">>, <<"9">>, <<"5", "5">>, <<"3", "0">>, <<"3", "0">>)
RowPct == MkRow(BTN, Undefined, <<"%">>, <<"a", "b", "c">>, <<>>)
RowSbHigh == MkRow(SB, <<"7">>, <<"7", "0">>, <<"3", "1">>, <<"4", "0">>)
RowNoPos == MkRow(Undefined, <<"3">>, <<"5", "5">>, <<"2", "5">>, <<"2", "5">>)

\* The rows drawn for the row sets of SpecEngine
RowPool == {RowLow, RowEdge, RowGood, RowSb, RowBlank, RowPct, RowSbHigh, RowNoPos}

\* The rows drawn for the view selection
ViewRowPool == {RowLow, RowGood, RowSb, RowSbHigh}

\* The files the user can pick: a name and what Papa.parse reads from it
Files == {
    [name |-> "a.csv", data |-> <<RowGood, RowLow, RowEdge>>],
    [name |-> "b.csv", data |-> <<RowSb, RowBlank>>],
    [name |-> "c.csv", data |-> <<RowPct, RowSbHigh, RowNoPos>>]
}

FilterValues == {"ALL", "GOOD", "BAD"}
ScopeValues == {"ALL", "WITH_BAD", "WITH_DATA"}
SortModes == {"MOST_BAD", "A_Z"}
QueryPool == {<<>>, <<"f">>, <<" ", "B">>, <<"z">>}

CellAlphabet == {"4", "0", ".", "%", "-", " ", "n", "A"}

SeqsUpTo(S, n) == UNION {[1..k -> S] : k \in 0..n}

----------------------------------------------------------------------------
(* Row classifier: computed (App.tsx:101-135) *)

Skip == [skip |-> TRUE]

\* r["Position"] || ""
OrEmpty(v) == IF v = Undefined THEN <<>> ELSE v

\* The pushed row with the low and high actions exchanged
pushedRowSwapped(section, r, position, target, value, result) ==
    [position |-> position, hands |-> r[HandsKey], value |-> value,
     target |-> target, result |-> result,
     recAction |-> IF result = "GOOD" THEN section.goodAction
                   ELSE IF result = "LOW" THEN section.highAction
                   ELSE section.lowAction]

\* The ComputedRow pushed, with its recommended action (App.tsx:116-130)
pushedRow(section, r, position, target, value, result) ==
    [position |-> position, hands |-> r[HandsKey], value |-> value,
     target |-> target, result |-> result,
     recAction |-> IF result = "GOOD" THEN section.goodAction
                   ELSE IF result = "LOW" THEN section.lowAction
                   ELSE section.highAction]

\* From the parsed value on (App.tsx:113-130)
rowWithValue(section, r, position, target, value) ==
    IF value = Null THEN Skip
    ELSE pushedRow(section, r, position, target, value, classify(value, target))

\* From the trimmed position on (App.tsx:107-130)
rowAtPosition(section, r, position) ==
    IF position = <<>> THEN Skip
    ELSE IF position \notin DOMAIN section.targetsByPosition THEN Skip
    ELSE rowWithValue(section, r, position, section.targetsByPosition[position],
                      parsePercent(r[section.column]))

\* One pass of the inner loop body for row r (App.tsx:106-130): Skip on a
\* continue, the pushed ComputedRow otherwise.
computedRow(section, r) ==
    rowAtPosition(section, r, Trim(OrEmpty(r[PositionKey])))

\* rows.push(c) unless the pass ended in continue
Pushed(acc, c) == IF c = Skip THEN acc ELSE Append(acc, c)

\* The inner loop over rawRows for one section (App.tsx:104-131)
RECURSIVE computedLoop(_, _, _, _)
computedLoop(section, rows, i, acc) ==
    IF i > Len(rows) THEN acc
    ELSE computedLoop(section, rows, i + 1, Pushed(acc, computedRow(section, rows[i])))

\* The loop with break in place of continue: it stops at the first skipped row
RECURSIVE computedLoopBreak(_, _, _, _)
computedLoopBreak(section, rows, i, acc) ==
    IF i > Len(rows) THEN acc
    ELSE IF computedRow(section, rows[i]) = Skip THEN acc
    ELSE computedLoopBreak(section, rows, i + 1,
                           Append(acc, computedRow(section, rows[i])))

computedRowsBreak(section, rows) == computedLoopBreak(section, rows, 1, <<>>)

computedRows(section, rows) == computedLoop(section, rows, 1, <<>>)

SectionById(id) == CHOOSE s \in {SECTIONS[i] : i \in 1..Len(SECTIONS)} : s.id = id

\* computed: section id -> ComputedRow[]
computed(rows) == [id \in SectionIds |-> computedRows(SectionById(id), rows)]

----------------------------------------------------------------------------
(* Aggregator: sectionStats (App.tsx:137-145), totals (App.tsx:147-173) *)

\* rows.filter(pred).length for the predicates the code uses
CountGood(rows) == Cardinality({i \in 1..Len(rows) : rows[i].result = "GOOD"})

\* A quotient n/d times 100, kept exact as a fraction (the code holds it as a
\* double).
Pct(n, d) == [num |-> n * 100, den |-> d]
PctZero == [num |-> 0, den |-> 1]

\* sectionStat with the percentage taken over the out-of-range rows
sectionStatOverBad(s, comp) ==
    LET rows == comp[s.id]
        good == CountGood(rows)
        bad == Len(rows) - good
        pctGood == IF bad # 0 THEN Pct(good, bad) ELSE PctZero
    IN  [section |-> s, rows |-> rows, good |-> good, bad |-> bad,
         pctGood |-> pctGood]

sectionStat(s, comp) ==
    LET rows == comp[s.id]
        good == CountGood(rows)
        bad == Len(rows) - good
        pctGood == IF Len(rows) # 0 THEN Pct(good, Len(rows)) ELSE PctZero
    IN  [section |-> s, rows |-> rows, good |-> good, bad |-> bad,
         pctGood |-> pctGood]

sectionStats(comp) == [i \in 1..Len(SECTIONS) |-> sectionStat(SECTIONS[i], comp)]

\* sectionStats.reduce((acc, x) => acc + x.rows.length, 0), from index i on
RECURSIVE ReduceRows(_, _)
ReduceRows(stats, i) ==
    IF i > Len(stats) THEN 0 ELSE Len(stats[i].rows) + ReduceRows(stats, i + 1)

\* sectionStats.reduce((acc, x) => acc + x.good, 0), from index i on
RECURSIVE ReduceGood(_, _)
ReduceGood(stats, i) ==
    IF i > Len(stats) THEN 0 ELSE stats[i].good + ReduceGood(stats, i + 1)

\* sectionStats.filter((x) => x.rows.length > 0).length
CountWithData(stats) == Cardinality({i \in 1..Len(stats) : Len(stats[i].rows) > 0})

\* sectionStats.filter((x) => x.bad > 0).length
CountWithBad(stats) == Cardinality({i \in 1..Len(stats) : stats[i].bad > 0})

\* totals counting the sections with out-of-range rows as those with rows
totalsBadAsData(stats) ==
    LET totalRows == ReduceRows(stats, 1)
        totalGood == ReduceGood(stats, 1)
        totalBad == totalRows - totalGood
        pctGood == IF totalRows # 0 THEN Pct(totalGood, totalRows) ELSE PctZero
        sectionsWithData == CountWithData(stats)
        sectionsWithBad == CountWithData(stats)
        goodStats == 0
        totalStats == CountWithData(stats)
        badStats == totalStats - goodStats
        pctGoodStats == IF totalStats # 0 THEN Pct(goodStats, totalStats) ELSE PctZero
    IN  [totalRows |-> totalRows, totalGood |-> totalGood, totalBad |-> totalBad,
         pctGood |-> pctGood, sectionsWithData |-> sectionsWithData,
         sectionsWithBad |-> sectionsWithBad, totalStats |-> totalStats,
         goodStats |-> goodStats, badStats |-> badStats,
         pctGoodStats |-> pctGoodStats]

totals(stats) ==
    LET totalRows == ReduceRows(stats, 1)
        totalGood == ReduceGood(stats, 1)
        totalBad == totalRows - totalGood
        pctGood == IF totalRows # 0 THEN Pct(totalGood, totalRows) ELSE PctZero
        sectionsWithData == CountWithData(stats)
        sectionsWithBad == CountWithBad(stats)
        goodStats == 0
        totalStats == CountWithData(stats)
        badStats == totalStats - goodStats
        pctGoodStats == IF totalStats # 0 THEN Pct(goodStats, totalStats) ELSE PctZero
    IN  [totalRows |-> totalRows, totalGood |-> totalGood, totalBad |-> totalBad,
         pctGood |-> pctGood, sectionsWithData |-> sectionsWithData,
         sectionsWithBad |-> sectionsWithBad, totalStats |-> totalStats,
         goodStats |-> goodStats, badStats |-> badStats,
         pctGoodStats |-> pctGoodStats]

----------------------------------------------------------------------------
(* View selector: visibleSections (App.tsx:175-200), rowFilterApply        *)
(* (App.tsx:223-228) and the render of the sections (App.tsx:306-439)      *)

Letters == <<"a", "b", "c", "d", "e", "f", "g", "h", "i", "j", "k", "l", "m",
             "n", "o", "p", "q", "r", "s", "t", "u", "v", "w", "x", "y", "z">>

LetterRank(c) == CHOOSE i \in 1..Len(Letters) : Letters[i] = LowerChar(c)

IsUpper(c) == LowerChar(c) # c

Sign(n) == IF n < 0 THEN -1 ELSE IF n > 0 THEN 1 ELSE 0

MinLen(a, b) == IF Len(a) < Len(b) THEN Len(a) ELSE Len(b)

\* First index where a and b differ in letter, 0 if none
FirstLetterDiff(a, b) ==
    Least({i \in 1..MinLen(a, b) : LetterRank(a[i]) # LetterRank(b[i])})

\* First index where a and b differ at all, 0 if none
FirstCharDiff(a, b) == Least({i \in 1..MinLen(a, b) : a[i] # b[i]})

\* String.prototype.localeCompare on strings of ASCII letters, as the
\* browser's collation orders them: by letter ignoring case first (a prefix
\* before its extensions), and between strings that differ in case only,
\* lower case before upper case at the first difference.
localeCompare(a, b) ==
    LET p == FirstLetterDiff(a, b)
        c == FirstCharDiff(a, b)
    IN  IF p # 0 THEN Sign(LetterRank(a[p]) - LetterRank(b[p]))
        ELSE IF Len(a) # Len(b) THEN Sign(Len(a) - Len(b))
        ELSE IF c # 0 THEN (IF IsUpper(a[c]) THEN 1 ELSE -1)
        ELSE 0

\* String.prototype.includes
Includes(s, q) ==
    \E i \in 0..(Len(s) - Len(q)) : SubSeq(s, i + 1, i + Len(q)) = q

\* The filter callback (App.tsx:178-187)
sectionVisible(x, scope, q) ==
    IF scope = "WITH_BAD" /\ x.bad = 0 THEN FALSE
    ELSE IF scope = "WITH_DATA" /\ Len(x.rows) = 0 THEN FALSE
    ELSE IF q = <<>> THEN TRUE
    ELSE \/ Includes(ToLowerCase(x.section.title), q)
         \/ Includes(ToLowerCase(x.section.column), q)
         \/ Includes(ToLowerCase(x.section.id), q)

\* The sort callbacks with the out-of-range count compared ascending
compareSectionsBadAscending(mode, a, b) ==
    IF mode = "MOST_BAD"
    THEN IF b.bad # a.bad THEN a.bad - b.bad
         ELSE IF Len(b.rows) # Len(a.rows) THEN Len(b.rows) - Len(a.rows)
         ELSE localeCompare(a.section.title, b.section.title)
    ELSE localeCompare(a.section.title, b.section.title)

\* The sort callbacks (App.tsx:190-194 and 196)
compareSections(mode, a, b) ==
    IF mode = "MOST_BAD"
    THEN IF b.bad # a.bad THEN b.bad - a.bad
         ELSE IF Len(b.rows) # Len(a.rows) THEN Len(b.rows) - Len(a.rows)
         ELSE localeCompare(a.section.title, b.section.title)
    ELSE localeCompare(a.section.title, b.section.title)

\* Array.prototype.sort is stable: x goes behind every element that does not
\* compare greater than it.
RECURSIVE InsertSorted(_, _, _)
InsertSorted(mode, sorted, x) ==
    IF sorted = <<>> THEN <<x>>
    ELSE IF compareSections(mode, sorted[Len(sorted)], x) > 0
         THEN Append(InsertSorted(mode, SubSeq(sorted, 1, Len(sorted) - 1), x),
                     sorted[Len(sorted)])
         ELSE Append(sorted, x)

RECURSIVE SortLoop(_, _, _, _)
SortLoop(mode, list, i, acc) ==
    IF i > Len(list) THEN acc
    ELSE SortLoop(mode, list, i + 1, InsertSorted(mode, acc, list[i]))

\* list.slice().sort(cmp)
sortSections(mode, list) == SortLoop(mode, list, 1, <<>>)

\* Array.prototype.filter
RECURSIVE FilterLoop(_, _, _, _, _)
FilterLoop(stats, scope, q, i, acc) ==
    IF i > Len(stats) THEN acc
    ELSE FilterLoop(stats, scope, q, i + 1,
                    IF sectionVisible(stats[i], scope, q)
                    THEN Append(acc, stats[i]) ELSE acc)

visibleSections(stats, scope, qry, mode) ==
    LET q == ToLowerCase(Trim(qry))
        list == FilterLoop(stats, scope, q, 1, <<>>)
    IN  sortSections(mode, list)

IsGood(r) == r.result = "GOOD"
IsNotGood(r) == r.result # "GOOD"

\* rowFilterApply with the precedence reversed: the section's filter first
rowFilterApplyLocalFirst(global, rows, localFilter) ==
    LET effective == IF localFilter = "ALL" THEN global ELSE localFilter
    IN  IF effective = "ALL" THEN rows
        ELSE IF effective = "GOOD" THEN SelectSeq(rows, IsGood)
        ELSE SelectSeq(rows, IsNotGood)

\* rowFilterApply (App.tsx:223-228); globalRowFilter is the component's state
rowFilterApply(global, rows, localFilter) ==
    LET effective == IF global = "ALL" THEN localFilter ELSE global
    IN  IF effective = "ALL" THEN rows
        ELSE IF effective = "GOOD" THEN SelectSeq(rows, IsGood)
        ELSE SelectSeq(rows, IsNotGood)

\* One <details> of the render (App.tsx:306-313)
renderSection(x, global, flt, open) ==
    LET localFilter == flt[x.section.id]
        shown == rowFilterApply(global, x.rows, localFilter)
    IN  [id |-> x.section.id, title |-> x.section.title, rows |-> x.rows,
         good |-> x.good, bad |-> x.bad, pctGood |-> x.pctGood,
         localFilter |-> localFilter,
         shown |-> shown, isOpen |-> open[x.section.id]]

\* visibleSections.map(...) (App.tsx:306-439)
renderSections(vis, global, flt, open) ==
    [i \in 1..Len(vis) |-> renderSection(vis[i], global, flt, open)]

\* The JSX built from the memoised derivations
renderFrom(fname, stats, global, scope, qry, mode, flt, open) ==
    [loaded |-> fname,
     totals |-> totals(stats),
     sections |-> renderSections(visibleSections(stats, scope, qry, mode),
                                 global, flt, open)]

\* The render: the memoised derivations and the JSX built from them
Render(fname, rows, global, scope, qry, mode, flt, open) ==
    renderFrom(fname, sectionStats(computed(rows)), global, scope, qry, mode,
               flt, open)

----------------------------------------------------------------------------
(* The component: state after construction and the handlers *)

NotCalled == [called |-> FALSE]

CallsIdle ==
    /\ cell = Undefined
    /\ parsed = NotCalled
    /\ cValue = Num(FALSE, 0, 0)
    /\ cRange = Target(0, 0)
    /\ cResult = "none"

\* useState initialisers (App.tsx:80-99)
AppInit ==
    /\ rawRows = <<>>
    /\ filename = ""
    /\ globalRowFilter = "ALL"
    /\ sectionScope = "ALL"
    /\ query = <<>>
    /\ sortMode = "MOST_BAD"
    /\ filters = [id \in SectionIds |-> "ALL"]
    /\ openMap = [id \in SectionIds |-> FALSE]
    /\ pending = <<>>
    /\ view = Render(filename, rawRows, globalRowFilter, sectionScope, query,
                     sortMode, filters, openMap)

Init == AppInit /\ CallsIdle

\* Every state change is followed by a render
Rerender ==
    view' = Render(filename', rawRows', globalRowFilter', sectionScope', query',
                   sortMode', filters', openMap')

RemoveAt(seq, i) == SubSeq(seq, 1, i - 1) \o SubSeq(seq, i + 1, Len(seq))

Truthy(r) == r # Undefined

\* (results.data || []).filter(Boolean)
FilterBoolean(data) == SelectSeq(data, Truthy)

\* onPickFile (App.tsx:202-215): the name is set at once, the parse runs later
onPickFile(file) ==
    /\ Len(pending) < MaxPending
    /\ filename' = file.name
    /\ pending' = Append(pending, file)
    /\ UNCHANGED <<rawRows, globalRowFilter, sectionScope, query, sortMode,
                   filters, openMap>>
    /\ Rerender
    /\ UNCHANGED <<parseVars, classifyVars>>

\* The complete callback (App.tsx:207-209)
complete(data) ==
    /\ rawRows' = FilterBoolean(data)
    /\ UNCHANGED <<filename, globalRowFilter, sectionScope, query, sortMode,
                   filters, openMap>>
    /\ Rerender
    /\ UNCHANGED <<parseVars, classifyVars>>

\* A pending parse completes; parses finish in any order
ParseComplete(i) ==
    /\ i \in 1..Len(pending)
    /\ complete(pending[i].data)
    /\ pending' = RemoveAt(pending, i)

\* The error callback (App.tsx:210-213): logs and alerts, sets no state
ParseError(i) ==
    /\ i \in 1..Len(pending)
    /\ pending' = RemoveAt(pending, i)
    /\ UNCHANGED <<rawRows, filename, globalRowFilter, sectionScope, query,
                   sortMode, filters, openMap, view>>
    /\ UNCHANGED <<parseVars, classifyVars>>

Rendered(id) == \E i \in 1..Len(view.sections) : view.sections[i].id = id

\* The All/Good/Bad buttons of a rendered section (App.tsx:360-392)
setFilters(id, f) ==
    /\ Rendered(id)
    /\ filters' = [filters EXCEPT ![id] = f]
    /\ UNCHANGED <<rawRows, filename, globalRowFilter, sectionScope, query,
                   sortMode, openMap, pending>>
    /\ Rerender
    /\ UNCHANGED <<parseVars, classifyVars>>

\* The map built by setAllOpen's loop (App.tsx:218-219)
allOpen(open) == [id \in SectionIds |-> open]

\* setAllOpen (App.tsx:217-221), behind buttons disabled while there are no
\* rows (App.tsx:264-269)
setAllOpen(open) ==
    /\ Len(rawRows) # 0
    /\ openMap' = allOpen(open)
    /\ UNCHANGED <<rawRows, filename, globalRowFilter, sectionScope, query,
                   sortMode, filters, pending>>
    /\ Rerender
    /\ UNCHANGED <<parseVars, classifyVars>>

\* onToggle of a rendered section (App.tsx:319-322)
onToggle(id, next) ==
    /\ Rendered(id)
    /\ openMap' = [openMap EXCEPT ![id] = next]
    /\ UNCHANGED <<rawRows, filename, globalRowFilter, sectionScope, query,
                   sortMode, filters, pending>>
    /\ Rerender
    /\ UNCHANGED <<parseVars, classifyVars>>

PickFile == \E file \in Files : onPickFile(file)
Complete == \E i \in 1..MaxPending : ParseComplete(i)
Error == \E i \in 1..MaxPending : ParseError(i)
SetFilter == \E id \in SectionIds, f \in FilterValues : setFilters(id, f)
SetAllOpen == \E open \in BOOLEAN : setAllOpen(open)
Toggle == \E id \in SectionIds, next \in BOOLEAN : onToggle(id, next)

Next == PickFile \/ Complete \/ Error \/ SetFilter \/ SetAllOpen \/ Toggle

Spec == Init /\ [][Next]_vars

----------------------------------------------------------------------------
(* The engine on every row set: the first render over any raw row set *)

NotRendered == [rendered |-> FALSE]

InitEngine ==
    /\ rawRows \in SeqsUpTo(RowPool, MaxRows)
    /\ filename = ""
    /\ globalRowFilter = "ALL"
    /\ sectionScope = "ALL"
    /\ query = <<>>
    /\ sortMode = "MOST_BAD"
    /\ filters = [id \in SectionIds |-> "ALL"]
    /\ openMap = [id \in SectionIds |-> FALSE]
    /\ pending = <<>>
    /\ view = NotRendered
    /\ CallsIdle

RenderPass ==
    /\ view = NotRendered
    /\ UNCHANGED <<rawRows, filename, globalRowFilter, sectionScope, query,
                   sortMode, filters, openMap, pending>>
    /\ Rerender
    /\ UNCHANGED <<parseVars, classifyVars>>

SpecEngine == InitEngine /\ [][RenderPass]_vars

----------------------------------------------------------------------------
(* The view selection on every filter state: the render for any value of    *)
(* the state it reads, and the per-section filter buttons                   *)

InitView ==
    /\ rawRows \in SeqsUpTo(ViewRowPool, MaxViewRows)
    /\ filename = ""
    /\ globalRowFilter \in FilterValues
    /\ sectionScope \in ScopeValues
    /\ query \in QueryPool
    /\ sortMode \in SortModes
    /\ filters = [id \in SectionIds |-> "ALL"]
    /\ openMap = [id \in SectionIds |-> FALSE]
    /\ pending = <<>>
    /\ view = Render(filename, rawRows, globalRowFilter, sectionScope, query,
                     sortMode, filters, openMap)
    /\ CallsIdle

SpecView == InitView /\ [][SetFilter]_vars

----------------------------------------------------------------------------
(* parsePercent and classify on every argument *)

Cells == SeqsUpTo(CellAlphabet, MaxCellLen) \cup {Undefined}

InitParse ==
    /\ AppInit
    /\ cell \in Cells
    /\ parsed = NotCalled
    /\ cValue = Num(FALSE, 0, 0)
    /\ cRange = Target(0, 0)
    /\ cResult = "none"

CallParsePercent ==
    /\ parsed = NotCalled
    /\ parsed' = parsePercent(cell)
    /\ UNCHANGED <<cell, appVars, classifyVars>>

SpecParse == InitParse /\ [][CallParsePercent]_vars

ClassifyNums ==
    {Num(neg, i, f) : neg \in BOOLEAN, i \in 0..MaxTarget, f \in {0, FracUnit \div 2}}

ClassifyRanges ==
    {r \in [min : ClassifyNums, max : ClassifyNums] : NumLE(r.min, r.max)}

InitClassify ==
    /\ AppInit
    /\ cell = Undefined
    /\ parsed = NotCalled
    /\ cValue \in ClassifyNums
    /\ cRange \in ClassifyRanges
    /\ cResult = "none"

CallClassify ==
    /\ cResult = "none"
    /\ cResult' = classify(cValue, cRange)
    /\ UNCHANGED <<cValue, cRange, appVars, parseVars>>

SpecClassify == InitClassify /\ [][CallClassify]_vars

----------------------------------------------------------------------------
(* Properties of classify (SpecClassify) *)

\* The numbers drawn for classify are multiples of one half: the value in
\* halves, as an integer
Halves(n) ==
    (IF n.neg THEN -1 ELSE 1) * (2 * n.int + n.frac \div (FracUnit \div 2))

\* C1: for min <= max, classify returns LOW exactly when value <= min, HIGH
\* exactly when value > min and value >= max, GOOD exactly when
\* min < value < max; value = min and value = max are never GOOD.
C1_ClassifyBoundaries ==
    cResult # "none" =>
        LET v == Halves(cValue)
            lo == Halves(cRange.min)
            hi == Halves(cRange.max)
        IN  /\ lo <= hi
            /\ cResult \in {"LOW", "GOOD", "HIGH"}
            /\ (cResult = "LOW") <=> (v <= lo)
            /\ (cResult = "HIGH") <=> (v > lo /\ v >= hi)
            /\ (cResult = "GOOD") <=> (lo < v /\ v < hi)
            /\ (v = lo \/ v = hi) => cResult # "GOOD"

\* A value on the lower bound of a proper range has been classified LOW
C1_Witness ==
    /\ cResult = "LOW"
    /\ Halves(cValue) = Halves(cRange.min)
    /\ Halves(cRange.min) < Halves(cRange.max)

----------------------------------------------------------------------------
(* Properties of parsePercent (SpecParse) *)

\* The cell after trimming and the removal of one "%"
Remainder(c) == ReplacePercent(Trim(c))

\* The remainder reads as a decimal number: an optional sign, digits and at
\* most one decimal point, at least one digit
IsDecimalText(t) ==
    LET u == Trim(t)
        body == IF u # <<>> /\ Head(u) \in {"-", "+"} THEN Tail(u) ELSE u
    IN  /\ \A i \in 1..Len(body) : body[i] \in Digits \cup {"."}
        /\ Cardinality({i \in 1..Len(body) : body[i] = "."}) <= 1
        /\ \E i \in 1..Len(body) : body[i] \in Digits

AbsentCell(c) ==
    \/ c = Undefined
    \/ Trim(c) = <<>>
    \/ Trim(c) = <<"-">>
    \/ ToLowerCase(Trim(c)) = <<"n", "a">>

\* C9: the extractor returns absent or a finite number; absent for
\* undefined/null, an empty-after-trim string, "-" and "na" in any case;
\* otherwise the number when the remainder after removing one "%" is a
\* decimal number, and absent for every remainder that is not a number
\* (also for a cell that holds nothing but "%").
C9_ExtractAbsentOrNumber ==
    parsed # NotCalled =>
        /\ parsed = Null \/ IsNum(parsed)
        /\ AbsentCell(cell) => parsed = Null
        /\ (~AbsentCell(cell) /\ IsDecimalText(Remainder(cell)))
               => parsed = ToNumber(Remainder(cell))
        /\ (~AbsentCell(cell) /\ ~IsDecimalText(Remainder(cell)))
               => parsed = Null

----------------------------------------------------------------------------
(* Properties of the row classifier and the aggregator (SpecEngine) *)

Catalog == {SECTIONS[i] : i \in 1..Len(SECTIONS)}

\* The rendered entry of a section
Shown(id) == view.sections[CHOOSE i \in 1..Len(view.sections) : view.sections[i].id = id]

\* The three conditions of a row for a section
HasPosition(r) == Trim(OrEmpty(r[PositionKey])) # <<>>
HasTarget(s, r) == Trim(OrEmpty(r[PositionKey])) \in DOMAIN s.targetsByPosition
HasValue(s, r) == parsePercent(r[s.column]) # Null
Qualifies(s, r) == HasPosition(r) /\ HasTarget(s, r) /\ HasValue(s, r)

Kept(s) == {i \in 1..Len(rawRows) : Qualifies(s, rawRows[i])}

\* The k-th smallest element of a set of indices
Nth(S, k) == CHOOSE i \in S : Cardinality({j \in S : j <= i}) = k

\* C2: a section's ClassifiedRow sequence is exactly the subsequence, in
\* input order, of the rows with a non-empty trimmed Position, an entry for
\* it in the section's mapping and a present value in the section's column;
\* a row skipped for one section does not stop later rows and may appear in
\* another section.
C2_RowsAreQualifyingSubsequence ==
    view # NotRendered =>
        \A s \in Catalog :
            /\ Rendered(s.id)
            /\ LET out == Shown(s.id).rows
               IN  /\ Len(out) = Cardinality(Kept(s))
                   /\ \A k \in 1..Len(out) :
                          LET r == rawRows[Nth(Kept(s), k)]
                          IN  /\ out[k].position = Trim(r[PositionKey])
                              /\ out[k].hands = r[HandsKey]
                              /\ out[k].value = parsePercent(r[s.column])

\* A row skipped for one section is followed by a row kept in that section,
\* and is itself kept in another section
C2_Witness ==
    /\ view # NotRendered
    /\ \E s1, s2 \in Catalog : \E i, j \in 1..Len(rawRows) :
           /\ i < j
           /\ ~Qualifies(s1, rawRows[i])
           /\ Qualifies(s1, rawRows[j])
           /\ Qualifies(s2, rawRows[i])
           /\ Len(Shown(s1.id).rows) >= 1
           /\ Len(Shown(s2.id).rows) >= 1

ActionFor(s, result) ==
    CASE result = "LOW" -> s.lowAction
      [] result = "GOOD" -> s.goodAction
      [] result = "HIGH" -> s.highAction

\* C3: every ClassifiedRow carries the target range of its position in the
\* section's mapping and the section's action for its own outcome.
C3_TargetAndActionMatchOutcome ==
    view # NotRendered =>
        \A s \in Catalog : \A k \in 1..Len(Shown(s.id).rows) :
            LET row == Shown(s.id).rows[k]
            IN  /\ row.position \in DOMAIN s.targetsByPosition
                /\ row.target = s.targetsByPosition[row.position]
                /\ row.result \in {"LOW", "GOOD", "HIGH"}
                /\ row.recAction = ActionFor(s, row.result)

\* Button target {50, 65} with value 45: below-range and the low action
C3_Witness ==
    /\ view # NotRendered
    /\ \E k \in 1..Len(Shown(SECTIONS[1].id).rows) :
           LET row == Shown(SECTIONS[1].id).rows[k]
           IN  /\ row.position = BTN
               /\ row.target = Target(50, 65)
               /\ row.value = Num(FALSE, 45, 0)
               /\ row.result = "LOW"
               /\ row.recAction = "tighten"

CountResult(rows, results) ==
    Cardinality({k \in 1..Len(rows) : rows[k].result \in results})

Counts(x) ==
    /\ x.good = CountResult(x.rows, {"GOOD"})
    /\ x.bad = CountResult(x.rows, {"LOW", "HIGH"})
    /\ x.good + x.bad = Len(x.rows)
    /\ Len(x.rows) = 0 => x.pctGood.num = 0

\* C4 as stated: the counts, and the fraction in-range equal to the in-range
\* count divided by the total rows (1/3 for [in-range, below, above]) and 0
\* for a section without rows.
C4_FractionIsGoodOverRows ==
    view # NotRendered =>
        \A s \in Catalog :
            LET x == Shown(s.id)
            IN  /\ Counts(x)
                /\ Len(x.rows) > 0 =>
                       x.pctGood.num * Len(x.rows) = x.good * x.pctGood.den

\* C4 amended: the counts, and the section's figure equal to 100 times the
\* in-range count divided by the total rows (a percentage: 100/3 for
\* [in-range, below, above]) and 0 for a section without rows.
C4_PercentIsGoodOverRows ==
    view # NotRendered =>
        \A s \in Catalog :
            LET x == Shown(s.id)
            IN  /\ Counts(x)
                /\ x.pctGood.den > 0
                /\ Len(x.rows) > 0 =>
                       x.pctGood.num * Len(x.rows) = 100 * x.good * x.pctGood.den

\* A section with outcomes [in-range, below-range, above-range]
C4_Witness ==
    /\ view # NotRendered
    /\ \E s \in Catalog :
           LET x == Shown(s.id)
           IN  /\ Len(x.rows) = 3
               /\ x.rows[1].result = "GOOD"
               /\ x.rows[2].result = "LOW"
               /\ x.rows[3].result = "HIGH"
               /\ x.good = 1
               /\ x.bad = 2
               /\ x.pctGood.num * 3 = 100 * x.pctGood.den

\* The sum of a section count over a set of sections
RECURSIVE SumGood(_)
SumGood(S) ==
    IF S = {} THEN 0
    ELSE LET e == CHOOSE e \in S : TRUE IN Shown(e.id).good + SumGood(S \ {e})

RECURSIVE SumBad(_)
SumBad(S) ==
    IF S = {} THEN 0
    ELSE LET e == CHOOSE e \in S : TRUE IN Shown(e.id).bad + SumBad(S \ {e})

\* C5: the totals are the sums of the per-section counts, the total rows their
\* sum, the sections with data those with at least one row, the sections with
\* out-of-range rows those with an out-of-range count above 0 (never more
\* than the sections with data), and the overall figure is 0 when the total
\* is 0.
C5_TotalsAreSums ==
    view # NotRendered =>
        LET t == view.totals
        IN  /\ t.totalGood = SumGood(Catalog)
            /\ t.totalBad = SumBad(Catalog)
            /\ t.totalRows = t.totalGood + t.totalBad
            /\ t.sectionsWithData =
                   Cardinality({s \in Catalog : Len(Shown(s.id).rows) >= 1})
            /\ t.sectionsWithBad =
                   Cardinality({s \in Catalog : Shown(s.id).bad > 0})
            /\ t.sectionsWithBad <= t.sectionsWithData
            /\ t.totalRows = 0 => t.pctGood.num = 0

\* Rows in several sections, one of them without out-of-range rows
C5_Witness ==
    /\ view # NotRendered
    /\ view.totals.totalGood > 0
    /\ view.totals.totalBad > 0
    /\ view.totals.sectionsWithData >= 2
    /\ view.totals.sectionsWithBad < view.totals.sectionsWithData

----------------------------------------------------------------------------
(* Properties of the view selector (SpecView) *)

EffectiveFilter(id) ==
    IF globalRowFilter # "ALL" THEN globalRowFilter ELSE filters[id]

Selected(rows, f) ==
    {k \in 1..Len(rows) :
        \/ f = "ALL"
        \/ f = "GOOD" /\ rows[k].result = "GOOD"
        \/ f = "BAD" /\ rows[k].result \in {"LOW", "HIGH"}}

\* C6: the rows shown of a section are those its effective filter selects
\* (the global filter unless it is "no filter", else the section's own):
\* only the in-range rows, only the other rows, or all rows, always as a
\* subsequence in the original order.
C6_ShownRowsFollowEffectiveFilter ==
    \A n \in 1..Len(view.sections) :
        LET x == view.sections[n]
            sel == Selected(x.rows, EffectiveFilter(x.id))
        IN  /\ x.localFilter = filters[x.id]
            /\ Len(x.shown) = Cardinality(sel)
            /\ \A k \in 1..Len(x.shown) : x.shown[k] = x.rows[Nth(sel, k)]

\* The global filter overrides a different per-section filter on a section
\* that has rows of both kinds
C6_Witness ==
    \E n \in 1..Len(view.sections) :
        LET x == view.sections[n]
        IN  /\ globalRowFilter = "BAD"
            /\ filters[x.id] = "GOOD"
            /\ x.good >= 1
            /\ x.bad >= 1
            /\ Len(x.shown) = x.bad

StatsNow == sectionStats(computed(rawRows))

QueryNow == ToLowerCase(Trim(query))

\* A section passes the scope and the query
Passes(x) ==
    /\ sectionScope = "WITH_BAD" => x.bad > 0
    /\ sectionScope = "WITH_DATA" => Len(x.rows) > 0
    /\ QueryNow # <<>> =>
           \/ Includes(ToLowerCase(x.section.title), QueryNow)
           \/ Includes(ToLowerCase(x.section.column), QueryNow)
           \/ Includes(ToLowerCase(x.section.id), QueryNow)

TitleBefore(a, b) == localeCompare(a, b) < 0

\* x may stand before y in the displayed list
InOrder(x, y) ==
    IF sortMode = "MOST_BAD"
    THEN \/ x.bad > y.bad
         \/ x.bad = y.bad /\ Len(x.rows) > Len(y.rows)
         \/ x.bad = y.bad /\ Len(x.rows) = Len(y.rows) /\ ~TitleBefore(y.title, x.title)
    ELSE ~TitleBefore(y.title, x.title)

\* C8: the displayed list is a permutation of the sections passing scope and
\* query, ordered by out-of-range count descending, then row count
\* descending, then title ascending ("most out-of-range first") or by title
\* ascending ("alphabetical"); distinct sections compare equal only if their
\* titles are equal; sorting the displayed list again gives the same order;
\* the displayed sections carry the statistics they were computed from.
C8_SectionsSortedPermutation ==
    LET passing == {i \in 1..Len(StatsNow) : Passes(StatsNow[i])}
        vis == visibleSections(StatsNow, sectionScope, query, sortMode)
    IN  /\ Len(view.sections) = Cardinality(passing)
        /\ \A i \in passing : \E n \in 1..Len(view.sections) :
               /\ view.sections[n].id = StatsNow[i].section.id
               /\ view.sections[n].rows = StatsNow[i].rows
               /\ view.sections[n].good = StatsNow[i].good
               /\ view.sections[n].bad = StatsNow[i].bad
        /\ \A m, n \in 1..Len(view.sections) :
               m < n => /\ view.sections[m].id # view.sections[n].id
                        /\ InOrder(view.sections[m], view.sections[n])
        /\ \A i, j \in 1..Len(StatsNow) :
               (i # j /\ compareSections(sortMode, StatsNow[i], StatsNow[j]) = 0)
                   => StatsNow[i].section.title = StatsNow[j].section.title
        /\ sortSections(sortMode, vis) = vis

\* Most out-of-range first: the list starts with a section that is not the
\* catalog's first, ahead of one with fewer out-of-range rows, and ends with
\* two sections that tie on both counts and stand in title order
C8_Witness ==
    /\ sortMode = "MOST_BAD"
    /\ Len(view.sections) = 3
    /\ view.sections[1].id # SECTIONS[1].id
    /\ view.sections[1].bad > view.sections[2].bad
    /\ view.sections[2].bad = view.sections[3].bad
    /\ Len(view.sections[2].rows) = Len(view.sections[3].rows)
    /\ TitleBefore(view.sections[2].title, view.sections[3].title)

----------------------------------------------------------------------------
(* Properties of the file pick (Spec) *)

\* The file named by the display is the source of the rows held
NamesSource(name, rows) ==
    \/ name = "" /\ rows = <<>>
    \/ \E f \in Files : f.name = name /\ FilterBoolean(f.data) = rows

\* C10: once no parse is pending, the filename shown as loaded is the name of
\* the file whose parsed rows are held in the raw row set.
C10_LoadedNameIsSourceOfRows ==
    pending = <<>> => NamesSource(view.loaded, rawRows)

====
